---- MODULE Spec2Model ----
(***************************************************************************)
(* Model of tools/gen_drivers_alloc/gen_drivers_alloc.py (SmolOS): the     *)
(* template-marker rendering engine and the configuration pre-analysis.    *)
(*                                                                         *)
(* Text is a sequence of atoms.  An atom is a chunk of characters that no  *)
(* operation of the program cuts through: a literal piece of an f-string,  *)
(* one word of a template, one digit, a whitespace character.  Every       *)
(* string operation of the source (split, replace, in, removeprefix,       *)
(* upper, endswith, +) is modelled on these sequences by what it does.     *)
(* A list of lines is a sequence of such texts.  A Python dict is a record *)
(* and "key in dict" is a test on its DOMAIN.                               *)
(***************************************************************************)
EXTENDS Integers, Sequences, FiniteSets, TLC

VARIABLES pc, config, template, today, analysis, renders, rust, arg, ret

vars == <<pc, config, template, today, analysis, renders, rust, arg, ret>>

(***************************************************************************)
(* Bounds of the model.                                                    *)
(***************************************************************************)
MaxDrivers == 3
MaxTemplateLines == 2
MaxRenders == 2
MaxWords == 2

(***************************************************************************)
(* Python string and list primitives on atom sequences.                    *)
(***************************************************************************)
IsSpace(a) == a \in {" ", "\t", "\n"}

\* s[i:] (1-based, i may be Len(s)+1)
From(s, i) == SubSeq(s, i, Len(s))

\* s.startswith(p)
StartsWith(s, p) == Len(p) <= Len(s) /\ SubSeq(s, 1, Len(p)) = p

\* s.endswith(p)
EndsWith(s, p) == Len(p) <= Len(s) /\ SubSeq(s, Len(s) - Len(p) + 1, Len(s)) = p

\* needle in hay
Contains(hay, needle) ==
    \E i \in 1..(Len(hay) - Len(needle) + 1) : SubSeq(hay, i, i + Len(needle) - 1) = needle

\* hay.find(needle), 1-based; 0 when absent
Find(hay, needle) ==
    IF Contains(hay, needle)
    THEN CHOOSE i \in 1..(Len(hay) - Len(needle) + 1) :
            /\ SubSeq(hay, i, i + Len(needle) - 1) = needle
            /\ \A j \in 1..(i - 1) : SubSeq(hay, j, j + Len(needle) - 1) # needle
    ELSE 0

\* s.replace(old, new): every non-overlapping occurrence, left to right
RECURSIVE Replace(_, _, _)
Replace(s, old, new) ==
    IF s = <<>> THEN <<>>
    ELSE IF StartsWith(s, old) THEN new \o Replace(From(s, Len(old) + 1), old, new)
    ELSE <<Head(s)>> \o Replace(Tail(s), old, new)

\* s.removeprefix(p)
RemovePrefix(s, p) == IF StartsWith(s, p) THEN From(s, Len(p) + 1) ELSE s

\* text.split(): the whitespace-delimited words, none of them empty
RECURSIVE SplitWords(_, _)
SplitWords(s, cur) ==
    IF s = <<>> THEN (IF cur = <<>> THEN <<>> ELSE <<cur>>)
    ELSE IF IsSpace(Head(s))
         THEN (IF cur = <<>> THEN <<>> ELSE <<cur>>) \o SplitWords(Tail(s), <<>>)
         ELSE SplitWords(Tail(s), Append(cur, Head(s)))

Split(text) == SplitWords(text, <<>>)

\* word.split(sep) for a one-atom separator: the segments, empty ones included
RECURSIVE SplitOnFrom(_, _, _)
SplitOnFrom(s, sep, cur) ==
    IF s = <<>> THEN <<cur>>
    ELSE IF Head(s) = sep THEN <<cur>> \o SplitOnFrom(Tail(s), sep, <<>>)
    ELSE SplitOnFrom(Tail(s), sep, Append(cur, Head(s)))

SplitOn(s, sep) == SplitOnFrom(s, sep, <<>>)

\* str(n) for n >= 0, one atom per decimal digit
Digit(n) == <<"0", "1", "2", "3", "4", "5", "6", "7", "8", "9">>[n + 1]

RECURSIVE ToStr(_)
ToStr(n) == IF n < 10 THEN <<Digit(n)>> ELSE ToStr(n \div 10) \o <<Digit(n % 10)>>

\* str.upper() on the atoms of file names
UpperAtom(a) ==
    CASE a = "drivers_alloc" -> "DRIVERS_ALLOC"
      [] a = "board" -> "BOARD"
      [] a = "c" -> "C"
      [] a = "h" -> "H"
      [] OTHER -> a

Upper(s) == [i \in 1..Len(s) |-> UpperAtom(s[i])]

\* the concatenation of a list of lists
RECURSIVE Flatten(_)
Flatten(ss) == IF ss = <<>> THEN <<>> ELSE Head(ss) \o Flatten(Tail(ss))

\* [x for x in s if Test(x)]
RECURSIVE SelectIdx(_, _, _)
SelectIdx(s, Test(_), i) ==
    IF i > Len(s) THEN <<>>
    ELSE (IF Test(s[i]) THEN <<i>> ELSE <<>>) \o SelectIdx(s, Test, i + 1)

Range(s) == {s[i] : i \in 1..Len(s)}

Has(d, k) == k \in DOMAIN d

(***************************************************************************)
(* Module constants of the source.                                         *)
(***************************************************************************)
MARKER == <<"@@marker", ":">>
FILENAME_MARKER == <<"filename">>
DATE_MARKER == <<"date">>
AUTHOR_MARKER == <<"author">>
INCLUDE_MARKER == <<"include">>
CONST_MARKER == <<"constants">>
IFNDEF_MARKER == <<"ifndef">>
DEFINE_MARKER == <<"define">>
FUNCTIONS_MARKER == <<"functions">>

DRIVER_ALLOC_TYPE == <<"DRIVER_ALLOC">>
DRIVER_ALLOC_TABLE_NAME == <<"DRIVERS_ALLOC">>

USART_DRIVER_NAME == <<"USART">>
GPIO_DRIVER_NAME == <<"GPIO">>

BUFFER_NAME_SUFFIX == <<"_BUFFER">>
BUFFER_SIZE_SUFFIX == <<"_BUFFER_SIZE">>

\* the string the source compares a peripheral with to find it absent
NO_PERIPHERAL == <<"None">>

\* os.path.splitext(os.path.basename(__file__))[0]
SCRIPT_NAME == <<"gen_drivers_alloc">>

(***************************************************************************)
(* Values of the configuration.  A peripheral is a string (PStr) or a      *)
(* mapping with port and pin (PMap).                                       *)
(***************************************************************************)
PStr(s) == [kind |-> "str", s |-> s]
PMap(port, pin) == [kind |-> "map", port |-> port, pin |-> pin]

IsStr(p) == p.kind = "str"

\* f"{peripheral}": a string as it is, a mapping as Python prints a dict
Fmt(p) ==
    IF IsStr(p) THEN p.s
    ELSE <<"{'port': '">> \o p.port \o <<"', 'pin': ">> \o ToStr(p.pin) \o <<"}">>

\* 'it_enabled' in drv and drv['it_enabled']
ItEnabled(drv) == Has(drv, "it_enabled") /\ drv.it_enabled

(***************************************************************************)
(* extract_marker                                                          *)
(***************************************************************************)
NoMarkers == [none |-> TRUE, val |-> <<>>]

HasMarker(word) == Contains(word, MARKER)

extract_marker(text) ==
    LET split_text == Split(text)
        markers_indexes == SelectIdx(split_text, HasMarker, 1)
    IN  IF Len(markers_indexes) = 0
        THEN NoMarkers
        ELSE [none |-> FALSE,
              val |-> [k \in 1..Len(markers_indexes) |->
                          SplitOn(split_text[markers_indexes[k]], ":")[2]]]

(***************************************************************************)
(* gen_includes, gen_defines, gen_struct_init, gen_table                   *)
(***************************************************************************)
gen_includes(inc_list) ==
    [i \in 1..Len(inc_list) |-> <<"#include \"">> \o inc_list[i] \o <<"\"">>]

gen_defines(defines) ==
    [i \in 1..Len(defines) |-> <<"#define ">> \o defines[i][1] \o <<" ">> \o defines[i][2]]

\* a variant that never writes the const qualifier
gen_struct_init_NoConst(struct_type, struct_name, fields, is_const) ==
    <<struct_type \o <<" ">> \o struct_name \o <<" = {">>>>
        \o [i \in 1..Len(fields) |->
               <<"    .">> \o fields[i][1] \o <<" = ">> \o fields[i][2] \o <<",">>]
        \o <<<<"};">>>>

gen_struct_init(struct_type, struct_name, fields, is_const) ==
    LET const == IF is_const THEN <<"const ">> ELSE <<>>
    IN  <<const \o struct_type \o <<" ">> \o struct_name \o <<" = {">>>>
        \o [i \in 1..Len(fields) |->
               <<"    .">> \o fields[i][1] \o <<" = ">> \o fields[i][2] \o <<",">>]
        \o <<<<"};">>>>

TableRow(field) ==
    <<"    { (uint8_t*)\"">> \o field[1] \o <<"\", ">> \o field[2] \o <<", ">> \o field[3]
        \o <<", (void*) ">> \o field[4] \o <<", (void*) ">> \o field[5] \o <<", ">>
        \o ToStr(field[6]) \o <<" },">>

\* a variant that leaves out the last row
gen_table_SkipLast(table_type, table_name, fields, is_const) ==
    LET const == IF is_const THEN <<"const">> ELSE <<>>
    IN  <<const \o <<" ">> \o table_type \o <<" ">> \o table_name \o <<"[] = {">>>>
        \o [i \in 1..(Len(fields) - 1) |-> TableRow(fields[i])]
        \o <<<<"};">>>>

gen_table(table_type, table_name, fields, is_const) ==
    LET const == IF is_const THEN <<"const">> ELSE <<>>
    IN  <<const \o <<" ">> \o table_type \o <<" ">> \o table_name \o <<"[] = {">>>>
        \o [i \in 1..Len(fields) |-> TableRow(fields[i])]
        \o <<<<"};">>>>

(***************************************************************************)
(* An exception (KeyError, TypeError, AttributeError) is the result        *)
(* Raised: nothing the raising call had built is returned.                 *)
(***************************************************************************)
Raised == [raised |-> TRUE]

Returned(v) == [raised |-> FALSE, val |-> v]

\* "r = call(); rest(r)": an exception in the call leaves the caller at once
Bind(r, Rest(_)) == IF r.raised THEN Raised ELSE Rest(r)

(***************************************************************************)
(* get_peripheral_handler: val is the returned expression, acc the         *)
(* handlers_init list after the call.                                      *)
(***************************************************************************)
HandlerOf(val, acc) == [raised |-> FALSE, val |-> val, acc |-> acc]

\* the resolver without its branch for the absent peripheral
get_peripheral_handler_NoSentinel(peripheral, handlers_init) ==
    IF ~Has(peripheral, "type") THEN Raised
    ELSE IF peripheral.type = USART_DRIVER_NAME
    THEN IF ~Has(peripheral, "peripheral") \/ ~IsStr(peripheral.peripheral)
         THEN Raised
         ELSE HandlerOf(<<"&huart">> \o RemovePrefix(peripheral.peripheral.s, USART_DRIVER_NAME),
                        handlers_init)
    ELSE IF peripheral.type = GPIO_DRIVER_NAME
    THEN IF ~Has(peripheral, "peripheral") \/ IsStr(peripheral.peripheral)
         THEN Raised
         ELSE HandlerOf(<<"&GPIO_P">> \o peripheral.peripheral.port
                            \o ToStr(peripheral.peripheral.pin),
                        handlers_init \o
                        gen_struct_init(<<"GPIO_ALLOC">>,
                            <<"GPIO_P">> \o peripheral.peripheral.port
                                \o ToStr(peripheral.peripheral.pin),
                            <<
                                <<<<"gpio">>, <<"GPIO">> \o peripheral.peripheral.port>>,
                                <<<<"pin">>,
                                  <<"GPIO_PIN_">> \o ToStr(peripheral.peripheral.pin)>>
                            >>,
                            TRUE))
    ELSE IF ~Has(peripheral, "peripheral") THEN Raised
    ELSE HandlerOf(<<>>, handlers_init)

get_peripheral_handler(peripheral, handlers_init) ==
    IF ~Has(peripheral, "type") THEN Raised
    ELSE IF peripheral.type = USART_DRIVER_NAME
    THEN IF ~Has(peripheral, "peripheral") \/ ~IsStr(peripheral.peripheral)
         THEN Raised
         ELSE HandlerOf(<<"&huart">> \o RemovePrefix(peripheral.peripheral.s, USART_DRIVER_NAME),
                        handlers_init)
    ELSE IF peripheral.type = GPIO_DRIVER_NAME
    THEN IF ~Has(peripheral, "peripheral") \/ IsStr(peripheral.peripheral)
         THEN Raised
         ELSE LET gpio_strict_name ==
                      <<"GPIO_P">> \o peripheral.peripheral.port
                          \o ToStr(peripheral.peripheral.pin)
              IN  HandlerOf(<<"&">> \o gpio_strict_name,
                            handlers_init \o
                            gen_struct_init(<<"GPIO_ALLOC">>, gpio_strict_name,
                                <<
                                    <<<<"gpio">>, <<"GPIO">> \o peripheral.peripheral.port>>,
                                    <<<<"pin">>,
                                      <<"GPIO_PIN_">> \o ToStr(peripheral.peripheral.pin)>>
                                >>,
                                TRUE))
    ELSE IF ~Has(peripheral, "peripheral") THEN Raised
    ELSE IF IsStr(peripheral.peripheral) /\ peripheral.peripheral.s = NO_PERIPHERAL
    THEN HandlerOf(<<"0">>, handlers_init)
    ELSE HandlerOf(<<>>, handlers_init)

(***************************************************************************)
(* gen_drivers_alloc                                                       *)
(***************************************************************************)
\* the inner loop over analysis['buffers']: the last buffer that matches wins
RECURSIVE PeriBuffer(_, _, _, _)
PeriBuffer(peripheral, buffers, k, peri_buffer) ==
    IF k > Len(buffers) THEN Returned(peri_buffer)
    ELSE IF ~Has(peripheral, "type") THEN Raised
    ELSE IF peripheral.type # USART_DRIVER_NAME
    THEN PeriBuffer(peripheral, buffers, k + 1, peri_buffer)
    ELSE IF ~Has(peripheral, "peripheral") \/ ~IsStr(peripheral.peripheral) THEN Raised
    ELSE IF Contains(buffers[k].name, peripheral.peripheral.s)
    THEN PeriBuffer(peripheral, buffers, k + 1, <<"&">> \o buffers[k].name)
    ELSE PeriBuffer(peripheral, buffers, k + 1, peri_buffer)

\* the loop over enumerate(peri_config); i is the zero-based index
RECURSIVE AllocLoop(_, _, _, _, _)
AllocLoop(peri_config, analysis_, i, peri_list, struct_init_c_code) ==
    IF i >= Len(peri_config)
    THEN Returned(struct_init_c_code
                  \o gen_table(DRIVER_ALLOC_TYPE, DRIVER_ALLOC_TABLE_NAME, peri_list, TRUE))
    ELSE Bind(PeriBuffer(peri_config[i + 1], analysis_.buffers, 1, <<"0">>),
              LAMBDA peri_buffer :
         IF ~Has(peri_config[i + 1], "name") \/ ~Has(peri_config[i + 1], "type")
            \/ ~Has(peri_config[i + 1], "direction") THEN Raised
         ELSE Bind(get_peripheral_handler(peri_config[i + 1], struct_init_c_code),
                   LAMBDA handler :
              AllocLoop(peri_config, analysis_, i + 1,
                        Append(peri_list,
                               <<peri_config[i + 1].name, peri_config[i + 1].type,
                                 peri_config[i + 1].direction,
                                 handler.val, peri_buffer.val, i>>),
                        handler.acc)))

\* the table builder with its loop started one driver late
gen_drivers_alloc_SkipFirst(peri_config, analysis_) ==
    AllocLoop(peri_config, analysis_, 1, <<>>, <<>>)

gen_drivers_alloc(peri_config, analysis_) == AllocLoop(peri_config, analysis_, 0, <<>>, <<>>)

(***************************************************************************)
(* gen_init_func                                                           *)
(***************************************************************************)
\* the lookup loop over config['init_sequence'], left at the first match:
\* the sequences that are not None, primary first
RECURSIVE FindSequences(_, _, _)
FindSequences(init_sequence, driver_init, k) ==
    IF k > Len(init_sequence) THEN Returned(<<>>)
    ELSE LET seq == init_sequence[k]
         IN  IF ~Has(seq, "driver") THEN Raised
             ELSE IF seq.driver # driver_init
             THEN FindSequences(init_sequence, driver_init, k + 1)
             ELSE IF ~Has(seq, "sequence") THEN Raised
             ELSE Returned(<<seq.sequence>>
                           \o (IF Has(seq, "it_enabled_sequence")
                               THEN <<seq.it_enabled_sequence>> ELSE <<>>))

\* the three replace calls on one instruction of a USART sequence
SubstituteCall(init_call, driver_to_init, handler) ==
    LET a == Replace(init_call, <<"<drv_name>">>, driver_to_init.peripheral.s)
        b == Replace(a, <<"<handler>">>, handler)
    IN  Replace(b, <<"<buffer>">>, driver_to_init.peripheral.s \o BUFFER_NAME_SUFFIX)

\* the loop over config['drivers'] for one sequence of the USART type
RECURSIVE UsartBlocks(_, _, _, _)
UsartBlocks(drivers, sequence, k, func_code) ==
    IF k > Len(drivers) THEN Returned(func_code)
    ELSE IF ~Has(drivers[k], "type") THEN Raised
    ELSE IF drivers[k].type # USART_DRIVER_NAME
    THEN UsartBlocks(drivers, sequence, k + 1, func_code)
    ELSE IF ~Has(drivers[k], "peripheral") THEN Raised
    ELSE IF sequence = <<>>
    THEN UsartBlocks(drivers, sequence, k + 1,
            func_code
            \o <<<<"    // ">> \o Fmt(drivers[k].peripheral) \o <<" initialization">>, <<>>>>)
    ELSE IF ~IsStr(drivers[k].peripheral) THEN Raised
    ELSE Bind(get_peripheral_handler(drivers[k], <<>>), LAMBDA handler :
         UsartBlocks(drivers, sequence, k + 1,
            func_code
            \o <<<<"    // ">> \o Fmt(drivers[k].peripheral) \o <<" initialization">>>>
            \o [c \in 1..Len(sequence) |->
                   <<"    ">> \o SubstituteCall(sequence[c], drivers[k], handler.val)]
            \o <<<<>>>>))

\* one pass of "for sequence in [init_sequence, init_sequence_it]"
\* the expander without the per-driver expansion of the USART type
SequenceBlock_OncePerType(cfg, driver_init, sequence, func_code) ==
    Returned(func_code
             \o <<<<"    // ">> \o driver_init \o <<" initialization">>>>
             \o [c \in 1..Len(sequence) |-> <<"    ">> \o sequence[c]]
             \o <<<<>>>>)

SequenceBlock(cfg, driver_init, sequence, func_code) ==
    IF driver_init = USART_DRIVER_NAME
    THEN UsartBlocks(cfg.drivers, sequence, 1, func_code)
    ELSE Returned(func_code
                  \o <<<<"    // ">> \o driver_init \o <<" initialization">>>>
                  \o [c \in 1..Len(sequence) |-> <<"    ">> \o sequence[c]]
                  \o <<<<>>>>)

RECURSIVE SequenceBlocks(_, _, _, _, _)
SequenceBlocks(cfg, driver_init, sequences, k, func_code) ==
    IF k > Len(sequences) THEN Returned(func_code)
    ELSE Bind(SequenceBlock(cfg, driver_init, sequences[k], func_code), LAMBDA r :
         SequenceBlocks(cfg, driver_init, sequences, k + 1, r.val))

\* the loop over analysis['init_list']
RECURSIVE InitLoop(_, _, _, _)
InitLoop(cfg, analysis_, k, func_code) ==
    IF k > Len(analysis_.init_list) THEN Returned(Append(func_code, <<"}">>))
    ELSE Bind(FindSequences(cfg.init_sequence, analysis_.init_list[k], 1), LAMBDA found :
         Bind(SequenceBlocks(cfg, analysis_.init_list[k], found.val, 1, func_code),
              LAMBDA r : InitLoop(cfg, analysis_, k + 1, r.val)))

gen_init_func(cfg, analysis_) ==
    InitLoop(cfg, analysis_, 1, <<<<"void drivers_init()">>, <<"{">>>>)

(***************************************************************************)
(* gen_handlers_func                                                       *)
(***************************************************************************)
\* the wrapper function of one interrupt-enabled driver
HandlerFunc(drv) ==
    IF ~Has(drv, "peripheral") \/ ~Has(drv, "type") THEN Raised
    ELSE IF drv.type # USART_DRIVER_NAME
    THEN Returned(<< <<>>, <<"void ">> \o Fmt(drv.peripheral) \o <<"_it_handler", "()">>,
                     <<"{">>, <<"}">> >>)
    ELSE Bind(get_peripheral_handler(drv, <<>>), LAMBDA handler :
         Returned(<< <<>>, <<"void ">> \o Fmt(drv.peripheral) \o <<"_it_handler", "()">>,
                     <<"{">>,
                     <<"    HAL_UART_IRQHandler(">> \o handler.val \o <<");">>,
                     <<"}">> >>))

RECURSIVE HandlersLoop(_, _, _)
HandlersLoop(drivers, k, func_code) ==
    IF k > Len(drivers) THEN Returned(func_code)
    ELSE IF ~ItEnabled(drivers[k]) THEN HandlersLoop(drivers, k + 1, func_code)
    ELSE Bind(HandlerFunc(drivers[k]), LAMBDA f :
         HandlersLoop(drivers, k + 1, func_code \o f.val))

gen_handlers_func(cfg) == HandlersLoop(cfg.drivers, 1, <<>>)

(***************************************************************************)
(* The pre-analysis pass of the main script.  buffers_size is a dict: a    *)
(* sequence of <<key, value>> pairs in insertion order, keys unique.       *)
(***************************************************************************)
EmptyAnalysis ==
    [includes_c |-> <<>>, activations |-> <<>>, init_list |-> <<>>, buffers |-> <<>>,
     buffers_size |-> <<>>]

\* "x not in list -> list.append(x)"
AddOnce(list, x) == IF x \in Range(list) THEN list ELSE Append(list, x)

RECURSIVE AddAllOnce(_, _)
AddAllOnce(list, xs) ==
    IF xs = <<>> THEN list ELSE AddAllOnce(AddOnce(list, Head(xs)), Tail(xs))

Keys(dict) == {dict[i][1] : i \in 1..Len(dict)}

\* the loop "for init in init_sequence" that merges the includes of a new type
RECURSIVE MergeIncludes(_, _, _, _)
MergeIncludes(init_sequence, type, k, includes_c) ==
    IF k > Len(init_sequence) THEN Returned(includes_c)
    ELSE LET init == init_sequence[k]
         IN  IF ~Has(init, "driver") THEN Raised
             ELSE IF init.driver # type
             THEN MergeIncludes(init_sequence, type, k + 1, includes_c)
             ELSE IF ~Has(init, "includes") THEN Raised
             ELSE MergeIncludes(init_sequence, type, k + 1,
                                AddAllOnce(includes_c, init.includes))

\* the buffer loop with the size symbol registered by every writer
RECURSIVE AddBuffers_EveryWriter(_, _, _, _)
AddBuffers_EveryWriter(init_sequence, driver, k, pa) ==
    IF k > Len(init_sequence) THEN Returned(pa)
    ELSE IF ~Has(init_sequence[k], "driver") THEN Raised
    ELSE IF ~(init_sequence[k].driver = driver.type /\ ItEnabled(driver))
    THEN AddBuffers_EveryWriter(init_sequence, driver, k + 1, pa)
    ELSE IF ~Has(driver, "peripheral") \/ ~IsStr(driver.peripheral) THEN Raised
    ELSE IF ~Has(init_sequence[k], "buffer_size") THEN Raised
    ELSE AddBuffers_EveryWriter(init_sequence, driver, k + 1,
            [pa EXCEPT
               !.buffers = Append(@, [name |-> driver.peripheral.s \o BUFFER_NAME_SUFFIX,
                                      size |-> init_sequence[k].driver \o BUFFER_SIZE_SUFFIX]),
               !.buffers_size = Append(@, <<init_sequence[k].driver \o BUFFER_SIZE_SUFFIX,
                                            init_sequence[k].buffer_size>>)])

\* the buffer loop without the test of it_enabled
RECURSIVE AddBuffers_AnyDriver(_, _, _, _)
AddBuffers_AnyDriver(init_sequence, driver, k, pa) ==
    IF k > Len(init_sequence) THEN Returned(pa)
    ELSE IF ~Has(init_sequence[k], "driver") THEN Raised
    ELSE IF init_sequence[k].driver # driver.type
    THEN AddBuffers_AnyDriver(init_sequence, driver, k + 1, pa)
    ELSE IF ~Has(driver, "peripheral") \/ ~IsStr(driver.peripheral) THEN Raised
    ELSE IF ~Has(init_sequence[k], "buffer_size") THEN Raised
    ELSE AddBuffers_AnyDriver(init_sequence, driver, k + 1,
            [pa EXCEPT
               !.buffers = Append(@, [name |-> driver.peripheral.s \o BUFFER_NAME_SUFFIX,
                                      size |-> init_sequence[k].driver \o BUFFER_SIZE_SUFFIX]),
               !.buffers_size =
                  IF init_sequence[k].driver \o BUFFER_SIZE_SUFFIX \in Keys(@) THEN @
                  ELSE Append(@, <<init_sequence[k].driver \o BUFFER_SIZE_SUFFIX,
                                   init_sequence[k].buffer_size>>)])

\* the loop "for init in init_sequence" that adds the driver's buffer
RECURSIVE AddBuffers(_, _, _, _)
AddBuffers(init_sequence, driver, k, pa) ==
    IF k > Len(init_sequence) THEN Returned(pa)
    ELSE LET init == init_sequence[k]
             size == init.driver \o BUFFER_SIZE_SUFFIX
         IN  IF ~Has(init, "driver") THEN Raised
             ELSE IF ~(init.driver = driver.type /\ ItEnabled(driver))
             THEN AddBuffers(init_sequence, driver, k + 1, pa)
             ELSE IF ~Has(driver, "peripheral") \/ ~IsStr(driver.peripheral) THEN Raised
             ELSE IF size \notin Keys(pa.buffers_size) /\ ~Has(init, "buffer_size") THEN Raised
             ELSE AddBuffers(init_sequence, driver, k + 1,
                     [pa EXCEPT
                        !.buffers = Append(@, [name |-> driver.peripheral.s \o BUFFER_NAME_SUFFIX,
                                               size |-> size]),
                        !.buffers_size = IF size \in Keys(@) THEN @
                                         ELSE Append(@, <<size, init.buffer_size>>)])

\* the analysis step with the type appended for every driver
AnalyseDriver_EveryDriver(cfg, driver, pa) ==
    IF ~Has(driver, "type") THEN Raised
    ELSE Bind(MergeIncludes(cfg.init_sequence, driver.type, 1,
                            IF driver.type = USART_DRIVER_NAME
                            THEN AddOnce(pa.includes_c, <<"usart.h">>)
                            ELSE pa.includes_c),
              LAMBDA merged :
         AddBuffers(cfg.init_sequence, driver, 1,
            [pa EXCEPT !.includes_c = merged.val,
                       !.activations = AddOnce(@, <<"DRIVER_ACTIVATE_">> \o driver.type),
                       !.init_list = Append(@, driver.type)]))

\* the body of "for driver in gen_config['drivers']"
AnalyseDriver(cfg, driver, pa) ==
    IF ~Has(driver, "type") THEN Raised
    ELSE Bind(IF driver.type \notin Range(pa.init_list)
              THEN MergeIncludes(cfg.init_sequence, driver.type, 1,
                                 IF driver.type = USART_DRIVER_NAME
                                 THEN AddOnce(pa.includes_c, <<"usart.h">>)
                                 ELSE pa.includes_c)
              ELSE Returned(IF driver.type = USART_DRIVER_NAME
                            THEN AddOnce(pa.includes_c, <<"usart.h">>)
                            ELSE pa.includes_c),
              LAMBDA merged :
         AddBuffers(cfg.init_sequence, driver, 1,
            [pa EXCEPT !.includes_c = merged.val,
                       !.activations = AddOnce(@, <<"DRIVER_ACTIVATE_">> \o driver.type),
                       !.init_list = AddOnce(@, driver.type)]))

RECURSIVE AnalysisLoop(_, _, _)
AnalysisLoop(cfg, k, pa) ==
    IF k > Len(cfg.drivers) THEN Returned(pa)
    ELSE Bind(AnalyseDriver(cfg, cfg.drivers[k], pa), LAMBDA r :
         AnalysisLoop(cfg, k + 1, r.val))

pre_analysis(cfg) == AnalysisLoop(cfg, 1, EmptyAnalysis)

(***************************************************************************)
(* gen_c_code.  The loop state st holds generated_lines and the list that  *)
(* config['includes_c'] names, which the include marker extends in place.  *)
(***************************************************************************)
FileExt(header) == IF header THEN <<".", "h">> ELSE <<".", "c">>

\* the buffer declarations of the constants marker in a source file
BufferDecls(buffers) ==
    Flatten([k \in 1..Len(buffers) |->
        <<<<"uint8_t ">> \o buffers[k].name \o <<"_BUF[">> \o buffers[k].size \o <<"];">>>>
        \o gen_struct_init(<<"RX_BUFFER">>, buffers[k].name,
                           << <<<<"buffer">>, buffers[k].name \o <<"_BUF">>>>,
                              <<<<"size">>, <<"0">>>> >>,
                           FALSE)])

Guard(cfg, header) ==
    Upper(cfg.target_c_file.name) \o <<"_">> \o Upper(RemovePrefix(FileExt(header), <<".">>))

\* one pass of "for marker in markers" on one template line
RenderMarker(line, marker, cfg, analysis_, header, date, st) ==
    LET out(ls) == Returned([st EXCEPT !.generated_lines = @ \o ls])
    IN  IF marker = FILENAME_MARKER
        THEN out(<<Replace(line, MARKER \o marker, cfg.target_c_file.name \o FileExt(header))>>)
        ELSE IF marker = DATE_MARKER
        THEN out(<<Replace(line, MARKER \o marker, date)>>)
        ELSE IF marker = AUTHOR_MARKER
        THEN out(<<Replace(line, MARKER \o marker, <<"Auto-generated by ">> \o SCRIPT_NAME)>>)
        ELSE IF marker = INCLUDE_MARKER
        THEN IF header
             THEN out(gen_includes(cfg.includes_h))
             ELSE LET includes_list == st.includes_c \o analysis_.includes_c
                  IN  Returned([generated_lines |->
                                    st.generated_lines \o gen_includes(includes_list),
                                includes_c |-> includes_list])
        ELSE IF marker = CONST_MARKER
        THEN IF header
             THEN out(<<<<"extern const ">> \o DRIVER_ALLOC_TYPE \o <<" ">>
                        \o DRIVER_ALLOC_TABLE_NAME \o <<"[];">>>>
                      \o [k \in 1..Len(analysis_.buffers) |->
                             <<"extern RX_BUFFER ">> \o analysis_.buffers[k].name \o <<";">>])
             ELSE Bind(gen_drivers_alloc(cfg.drivers, analysis_), LAMBDA alloc :
                       out(BufferDecls(analysis_.buffers) \o alloc.val))
        ELSE IF marker = IFNDEF_MARKER
        THEN out(<< <<"#ifndef ">> \o Guard(cfg, header), <<"#define ">> \o Guard(cfg, header) >>)
        ELSE IF marker = DEFINE_MARKER
        THEN out(gen_defines(<< <<<<"DRIVERS_ALLOC_SIZE">>, ToStr(Len(cfg.drivers))>> >>)
                 \o [k \in 1..Len(analysis_.activations) |->
                        <<"#define ">> \o analysis_.activations[k]]
                 \o [k \in 1..Len(analysis_.buffers_size) |->
                        <<"#define ">> \o analysis_.buffers_size[k][1] \o <<" ">>
                        \o ToStr(analysis_.buffers_size[k][2])])
        ELSE IF marker = FUNCTIONS_MARKER
        THEN IF header
             THEN out(<<<<"void drivers_init();">>>>)
             ELSE Bind(gen_init_func(cfg, analysis_), LAMBDA init :
                  Bind(gen_handlers_func(cfg), LAMBDA handlers :
                       out(init.val \o handlers.val)))
        ELSE Returned(st)    \* print("Unknown marker: ...")

RECURSIVE RenderMarkers(_, _, _, _, _, _, _, _)
RenderMarkers(line, markers, k, cfg, analysis_, header, date, st) ==
    IF k > Len(markers) THEN Returned(st)
    ELSE Bind(RenderMarker(line, markers[k], cfg, analysis_, header, date, st), LAMBDA r :
         RenderMarkers(line, markers, k + 1, cfg, analysis_, header, date, r.val))

\* a variant that copies no line of the template
RenderLineWith_SkipPlain(markers, line, cfg, analysis_, header, date, st) ==
    IF markers.none
    THEN Returned(st)
    ELSE RenderMarkers(line, markers.val, 1, cfg, analysis_, header, date, st)

\* the body of "for line in template_lines"
RenderLineWith(markers, line, cfg, analysis_, header, date, st) ==
    IF markers.none
    THEN Returned([st EXCEPT !.generated_lines = Append(@, line)])
    ELSE RenderMarkers(line, markers.val, 1, cfg, analysis_, header, date, st)

RenderLine(line, cfg, analysis_, header, date, st) ==
    RenderLineWith(extract_marker(line), line, cfg, analysis_, header, date, st)

RECURSIVE RenderLines(_, _, _, _, _, _, _)
RenderLines(template_lines, k, cfg, analysis_, header, date, st) ==
    IF k > Len(template_lines) THEN Returned(st)
    ELSE Bind(RenderLine(template_lines[k], cfg, analysis_, header, date, st), LAMBDA r :
         RenderLines(template_lines, k + 1, cfg, analysis_, header, date, r.val))

\* f.writelines([line + "\n" if not line.endswith("\n") else line for ...])
WriteLines(generated_lines) ==
    [k \in 1..Len(generated_lines) |->
        IF EndsWith(generated_lines[k], <<"\n">>) THEN generated_lines[k]
        ELSE generated_lines[k] \o <<"\n">>]

\* val.lines is the text written to the target file, line by line;
\* val.includes_c is config['includes_c'] after the call
gen_c_code(template_lines, cfg, analysis_, header, date) ==
    Bind(RenderLines(template_lines, 1, cfg, analysis_, header, date,
                     [generated_lines |-> <<>>, includes_c |-> cfg.includes_c]),
         LAMBDA r : Returned([lines |-> WriteLines(r.val.generated_lines),
                              includes_c |-> r.val.includes_c]))

(***************************************************************************)
(* gen_rust_code                                                           *)
(***************************************************************************)
RECURSIVE RustBindings(_, _, _)
RustBindings(drivers, k, lines) ==
    IF k > Len(drivers) THEN Returned(lines)
    ELSE IF ~ItEnabled(drivers[k]) THEN RustBindings(drivers, k + 1, lines)
    ELSE IF ~Has(drivers[k], "peripheral") THEN Raised
    ELSE RustBindings(drivers, k + 1,
            Append(lines, <<"    pub fn ">> \o Fmt(drivers[k].peripheral)
                          \o <<"_it_handler", "();">>))

\* a variant that writes a Rust function for every driver
RECURSIVE RustFunctions_EveryDriver(_, _)
RustFunctions_EveryDriver(drivers, k) ==
    IF k > Len(drivers) THEN <<>>
    ELSE << <<"#[allow(non_snake_case)]">>,
            <<"#[interrupt]">>,
            <<"fn ">> \o Fmt(drivers[k].peripheral) \o <<"() {">>,
            <<"    unsafe { ">> \o Fmt(drivers[k].peripheral)
                \o <<"_it_handler", "(); }">>,
            <<"}">> >>
         \o RustFunctions_EveryDriver(drivers, k + 1)

RECURSIVE RustFunctions(_, _)
RustFunctions(drivers, k) ==
    IF k > Len(drivers) THEN <<>>
    ELSE (IF ~ItEnabled(drivers[k]) THEN <<>>
          ELSE << <<"#[allow(non_snake_case)]">>,
                  <<"#[interrupt]">>,
                  <<"fn ">> \o Fmt(drivers[k].peripheral) \o <<"() {">>,
                  <<"    unsafe { ">> \o Fmt(drivers[k].peripheral)
                      \o <<"_it_handler", "(); }">>,
                  <<"}">> >>)
         \o RustFunctions(drivers, k + 1)

gen_rust_code(cfg) ==
    Bind(RustBindings(cfg.drivers, 1, <<>>), LAMBDA bindings :
         Returned(WriteLines(
            << <<"use stm32f7::stm32f769::interrupt;">>, <<>>,
               <<"unsafe extern \"C\" {">> >>
            \o bindings.val
            \o << <<"}">>, <<>> >>
            \o RustFunctions(cfg.drivers, 1))))

(***************************************************************************)
(* Inputs: drivers, init sequences, configurations, templates.             *)
(***************************************************************************)
USART1 == <<"USART", "1">>
USART10 == <<"USART", "1", "0">>

DrvDebug ==
    [name |-> <<"DEBUG">>, type |-> USART_DRIVER_NAME, direction |-> <<"INOUT">>,
     peripheral |-> PStr(USART1)]
DrvGps ==
    [name |-> <<"GPS">>, type |-> USART_DRIVER_NAME, direction |-> <<"IN">>,
     peripheral |-> PStr(USART10), it_enabled |-> TRUE]
DrvLed ==
    [name |-> <<"LED">>, type |-> GPIO_DRIVER_NAME, direction |-> <<"OUT">>,
     peripheral |-> PMap(<<"A">>, 5)]
DrvDisplay ==
    [name |-> <<"DISPLAY">>, type |-> <<"DISPLAY">>, direction |-> <<"OUT">>,
     peripheral |-> PStr(NO_PERIPHERAL), it_enabled |-> FALSE]
DrvSensor ==
    [name |-> <<"SENSOR">>, type |-> <<"I2C">>, direction |-> <<"INOUT">>,
     peripheral |-> PStr(<<"I2C", "1">>), it_enabled |-> TRUE]
DrvModem ==
    [name |-> <<"MODEM">>, type |-> USART_DRIVER_NAME, direction |-> <<"INOUT">>,
     peripheral |-> PStr(<<"USART", "2">>), it_enabled |-> TRUE]
DrvButton ==
    [name |-> <<"BUTTON">>, type |-> GPIO_DRIVER_NAME, direction |-> <<"IN">>,
     peripheral |-> PStr(NO_PERIPHERAL)]

Drivers == {DrvDebug, DrvGps, DrvModem, DrvLed, DrvSensor}

SeqsUpTo(S, n) == UNION {[1..m -> S] : m \in 0..n}

DriverLists == SeqsUpTo(Drivers, MaxDrivers)

UsartSpec ==
    [driver |-> USART_DRIVER_NAME,
     sequence |-> << <<"MX_", "<drv_name>", "_UART_Init();">>,
                     <<"rx_buffer_init(&", "<buffer>", ");">> >>,
     it_enabled_sequence |-> << <<"HAL_UART_Receive_IT(", "<handler>", ", ", "<buffer>",
                                  ".buffer, 1);">> >>,
     includes |-> << <<"usart.h">>, <<"rx_buffer.h">> >>,
     buffer_size |-> 64]
UsartSpecPlain ==
    [driver |-> USART_DRIVER_NAME,
     sequence |-> << <<"MX_", "<drv_name>", "_UART_Init();">> >>,
     includes |-> << <<"rx_buffer.h">> >>,
     buffer_size |-> 128]
I2cSpec ==
    [driver |-> <<"I2C">>,
     sequence |-> << <<"MX_I2C1_Init();">> >>,
     it_enabled_sequence |-> << <<"HAL_I2C_EnableListen_IT(&hi2c1);">> >>,
     includes |-> << <<"i2c.h">>, <<"rx_buffer.h">> >>,
     buffer_size |-> 32]
GpioSpec ==
    [driver |-> GPIO_DRIVER_NAME,
     sequence |-> << <<"MX_GPIO_Init();">> >>,
     includes |-> << <<"gpio.h">> >>]

\* at most one InitSequenceSpec per driver type
InitSequences == { <<>>, <<UsartSpec, I2cSpec>>, <<GpioSpec, UsartSpecPlain>> }

Config(drivers, init_sequence) ==
    [drivers |-> drivers, init_sequence |-> init_sequence,
     includes_c |-> << <<"drivers_alloc.h">> >>, includes_h |-> << <<"drivers.h">> >>,
     target_c_file |-> [name |-> <<"drivers_alloc">>]]

Configs == {Config(d, s) : d \in DriverLists, s \in InitSequences}

BaseConfigs ==
    { Config(<<DrvGps, DrvLed>>, <<UsartSpec, I2cSpec>>),
      Config(<<DrvDebug>>, <<GpioSpec, UsartSpecPlain>>) }

\* configurations with a key missing
DrvNoType ==
    [name |-> <<"CLOCK">>, direction |-> <<"IN">>, peripheral |-> PStr(<<"TIM", "2">>)]
DrvNoName ==
    [type |-> USART_DRIVER_NAME, direction |-> <<"OUT">>,
     peripheral |-> PStr(<<"USART", "3">>)]
DrvNoDirection ==
    [name |-> <<"TRACE">>, type |-> USART_DRIVER_NAME,
     peripheral |-> PStr(<<"USART", "3">>)]
DrvNoPeripheral ==
    [name |-> <<"WATCHDOG">>, type |-> <<"IWDG">>, direction |-> <<"OUT">>]
DrvItNoPeripheral ==
    [name |-> <<"EEPROM">>, type |-> <<"I2C">>, direction |-> <<"INOUT">>,
     it_enabled |-> TRUE]

UsartSpecNoIncludes ==
    [driver |-> USART_DRIVER_NAME,
     sequence |-> << <<"MX_", "<drv_name>", "_UART_Init();">> >>,
     buffer_size |-> 16]
UsartSpecNoSize ==
    [driver |-> USART_DRIVER_NAME,
     sequence |-> << <<"MX_", "<drv_name>", "_UART_Init();">> >>,
     includes |-> << <<"rx_buffer.h">> >>]
UsartSpecNoSequence ==
    [driver |-> USART_DRIVER_NAME,
     includes |-> << <<"rx_buffer.h">> >>,
     buffer_size |-> 16]

IncompleteConfigs ==
    { Config(<<DrvGps, DrvNoType>>, <<UsartSpec, I2cSpec>>),
      Config(<<DrvGps, DrvNoName>>, <<UsartSpec, I2cSpec>>),
      Config(<<DrvNoDirection, DrvLed>>, <<>>),
      Config(<<DrvLed, DrvNoPeripheral>>, <<GpioSpec, UsartSpecPlain>>),
      Config(<<DrvItNoPeripheral>>, <<UsartSpec, I2cSpec>>),
      Config(<<DrvDebug, DrvItNoPeripheral>>, <<>>),
      Config(<<DrvDebug>>, <<UsartSpecNoIncludes>>),
      Config(<<DrvLed>>, <<UsartSpecNoIncludes>>),
      Config(<<DrvDebug, DrvGps>>, <<UsartSpecNoSize>>),
      Config(<<DrvDebug>>, <<UsartSpecNoSize>>),
      Config(<<DrvDebug>>, <<UsartSpecNoSequence>>) }

\* configurations with a driver without peripheral ("None")
SentinelConfigs ==
    { Config(<<DrvDisplay, DrvGps, DrvDisplay>>, <<UsartSpec, I2cSpec>>),
      Config(<<DrvLed, DrvDisplay, DrvSensor>>, <<GpioSpec, UsartSpecPlain>>),
      Config(<<DrvLed, DrvButton>>, <<GpioSpec, UsartSpecPlain>>),
      Config(<<DrvButton>>, <<>>) }

MarkerLine(kind) == MARKER \o kind \o <<"\n">>

Kinds ==
    {FILENAME_MARKER, DATE_MARKER, AUTHOR_MARKER, INCLUDE_MARKER, CONST_MARKER,
     IFNDEF_MARKER, DEFINE_MARKER, FUNCTIONS_MARKER}

PlainLines == { <<"//", " ", "generated", " ", "file", "\n">>, <<"#endif", "\n">> }

TemplateLines ==
    PlainLines
    \cup {MarkerLine(k) : k \in Kinds}
    \cup { MarkerLine(<<"version">>),
           <<"//", " ">> \o MARKER \o FILENAME_MARKER \o <<" ">> \o MARKER \o DATE_MARKER
               \o <<"\n">> }

Templates == SeqsUpTo(TemplateLines, MaxTemplateLines)

\* a template with every marker kind, in the layout of a C file
FullTemplate ==
    << <<"//", " ", "File", " ">> \o MARKER \o FILENAME_MARKER \o <<"\n">>,
       <<"//", " ", "Date", " ">> \o MARKER \o DATE_MARKER \o <<"\n">>,
       <<"//", " ">> \o MARKER \o AUTHOR_MARKER \o <<"\n">>,
       MarkerLine(IFNDEF_MARKER),
       MarkerLine(INCLUDE_MARKER),
       MarkerLine(DEFINE_MARKER),
       <<"//", " ", "generated", " ", "file", "\n">>,
       MarkerLine(CONST_MARKER),
       MarkerLine(FUNCTIONS_MARKER),
       <<"#endif", "\n">> >>

Dates == { <<"03-11-2026">>, <<"31-12-1999">> }

\* templates whose file does not end with a line terminator
UnterminatedTemplates ==
    { << <<"//", " ", "generated", " ", "file", "\n">>, MarkerLine(DEFINE_MARKER),
         <<"#endif">> >>,
      << <<"#endif", "\n">>, MARKER \o DATE_MARKER >> }

\* header comments with the marker joined to a label or given twice
CommentTemplates ==
    { << <<"//", " ", "File", ":">> \o MARKER \o FILENAME_MARKER \o <<"\n">>,
         <<"#endif", "\n">> >>,
      << <<"//", " ">> \o MARKER \o DATE_MARKER \o <<" ", "//">> \o MARKER \o DATE_MARKER
            \o <<" ">> \o MARKER \o AUTHOR_MARKER \o <<"\n">> >> }

ShortTemplates ==
    { FullTemplate,
      <<MarkerLine(DEFINE_MARKER), MarkerLine(FUNCTIONS_MARKER)>>,
      <<MarkerLine(CONST_MARKER)>> }

\* every configuration with the full template, every template with the
\* base configurations, each date, the incomplete and sentinel
\* configurations, and the unterminated and comment templates
Inputs ==
    {<<c, FullTemplate, <<"03-11-2026">>>> : c \in Configs}
    \cup (BaseConfigs \X Templates \X {<<"03-11-2026">>})
    \cup (BaseConfigs \X {FullTemplate} \X Dates)
    \cup ((IncompleteConfigs \cup SentinelConfigs) \X ShortTemplates
            \X {<<"03-11-2026">>})
    \cup (BaseConfigs \X (UnterminatedTemplates \cup CommentTemplates)
            \X {<<"03-11-2026">>})

(***************************************************************************)
(* The generator as a state machine: the script's pre-analysis, then calls *)
(* of gen_c_code (source or header) and the final gen_rust_code.           *)
(***************************************************************************)
NoCall == [fn |-> "none"]

Init ==
    /\ pc = "start"
    /\ \E in \in Inputs : config = in[1] /\ template = in[2] /\ today = in[3]
    /\ analysis = EmptyAnalysis
    /\ renders = <<>>
    /\ rust = <<>>
    /\ arg = NoCall
    /\ ret = NoCall

\* a variant that goes on with the empty record when the analysis raises
PreAnalysisDone_Recover(r) ==
    IF r.raised
    THEN pc' = "ready" /\ UNCHANGED analysis
    ELSE pc' = "ready" /\ analysis' = r.val

PreAnalysisDone(r) ==
    IF r.raised
    THEN pc' = "fatal" /\ UNCHANGED analysis
    ELSE pc' = "ready" /\ analysis' = r.val

PreAnalysis ==
    /\ pc = "start"
    /\ PreAnalysisDone(pre_analysis(config))
    /\ UNCHANGED <<config, template, today, renders, rust, arg, ret>>

GenCCodeDone(r, header) ==
    IF r.raised
    THEN pc' = "fatal" /\ UNCHANGED <<config, renders>>
    ELSE /\ pc' = "ready"
         /\ config' = [config EXCEPT !.includes_c = r.val.includes_c]
         /\ renders' = Append(renders, [header |-> header, lines |-> r.val.lines])

GenCCode(header) ==
    /\ pc = "ready"
    /\ Len(renders) < MaxRenders
    /\ GenCCodeDone(gen_c_code(template, config, analysis, header, today), header)
    /\ UNCHANGED <<template, today, analysis, rust, arg, ret>>

GenSource == GenCCode(FALSE)

GenHeader == GenCCode(TRUE)

GenRustCodeDone(r) ==
    IF r.raised
    THEN pc' = "fatal" /\ UNCHANGED rust
    ELSE pc' = "done" /\ rust' = r.val

GenRustCode ==
    /\ pc = "ready"
    /\ GenRustCodeDone(gen_rust_code(config))
    /\ UNCHANGED <<config, template, today, analysis, renders, arg, ret>>

Next == PreAnalysis \/ GenSource \/ GenHeader \/ GenRustCode

Spec == Init /\ [][Next]_vars

(***************************************************************************)
(* The leaf functions called on their own: extract_marker on one line,     *)
(* get_peripheral_handler on one driver and one accumulator.               *)
(***************************************************************************)
Words ==
    { <<"x">>,
      MARKER \o DATE_MARKER,
      MARKER \o FILENAME_MARKER,
      <<"//">> \o MARKER \o DATE_MARKER,
      MARKER \o DATE_MARKER \o <<":", "x">>,
      <<"File", ":">> \o MARKER \o FILENAME_MARKER,
      <<"@@marker">>,
      MARKER }

\* " ".join(words) + "\n"
RECURSIVE JoinWords(_)
JoinWords(ws) ==
    IF ws = <<>> THEN <<"\n">>
    ELSE IF Len(ws) = 1 THEN Head(ws) \o <<"\n">>
    ELSE Head(ws) \o <<" ">> \o JoinWords(Tail(ws))

Lines == {JoinWords(ws) : ws \in SeqsUpTo(Words, MaxWords)}

DrvSpare ==
    [name |-> <<"SPARE">>, type |-> USART_DRIVER_NAME, direction |-> <<"OUT">>,
     peripheral |-> PStr(NO_PERIPHERAL)]
DrvRelay ==
    [name |-> <<"RELAY">>, type |-> GPIO_DRIVER_NAME, direction |-> <<"OUT">>,
     peripheral |-> PMap(<<"B">>, 12), it_enabled |-> TRUE]
DrvTimer ==
    [name |-> <<"TIMER">>, type |-> <<"TIM">>, direction |-> <<"IN">>,
     peripheral |-> PStr(<<"TIM", "2">>)]
DrvBus ==
    [name |-> <<"BUS">>, type |-> <<"I2C">>, direction |-> <<"INOUT">>,
     peripheral |-> PStr(NO_PERIPHERAL), it_enabled |-> TRUE]

UnitDrivers == Drivers \cup {DrvDisplay, DrvButton, DrvSpare, DrvRelay, DrvTimer, DrvBus}

Accumulators == { <<>>, << <<"// handlers">> >> }

UnitCalls ==
    {[fn |-> "extract_marker", text |-> l] : l \in Lines}
    \cup {[fn |-> "get_peripheral_handler", peripheral |-> d, handlers_init |-> a] :
            d \in UnitDrivers, a \in Accumulators}

InitUnit ==
    /\ pc = "call"
    /\ arg \in UnitCalls
    /\ ret = NoCall
    /\ config = Config(<<>>, <<>>)
    /\ template = <<>>
    /\ today = <<"03-11-2026">>
    /\ analysis = EmptyAnalysis
    /\ renders = <<>>
    /\ rust = <<>>

CallExtractMarker ==
    /\ pc = "call"
    /\ arg.fn = "extract_marker"
    /\ ret' = [fn |-> "extract_marker", r |-> extract_marker(arg.text)]
    /\ pc' = "returned"
    /\ UNCHANGED <<config, template, today, analysis, renders, rust, arg>>

CallGetPeripheralHandler ==
    /\ pc = "call"
    /\ arg.fn = "get_peripheral_handler"
    /\ ret' = [fn |-> "get_peripheral_handler",
               r |-> get_peripheral_handler(arg.peripheral, arg.handlers_init)]
    /\ pc' = "returned"
    /\ UNCHANGED <<config, template, today, analysis, renders, rust, arg>>

NextUnit == CallExtractMarker \/ CallGetPeripheralHandler

SpecUnit == InitUnit /\ [][NextUnit]_vars

(***************************************************************************)
(* Properties.                                                             *)
(***************************************************************************)
ReturnedFrom(fn) == pc = "returned" /\ ret.fn = fn

\* the text of a word after its first marker prefix
AfterPrefix(word) == From(word, Find(word, MARKER) + Len(MARKER))

MarkerWords(text) ==
    LET ws == Split(text) IN [k \in 1..Len(SelectIdx(ws, HasMarker, 1)) |->
                                 ws[SelectIdx(ws, HasMarker, 1)[k]]]

\* C10: extract_marker returns none when no word of the line contains the
\* marker prefix, and otherwise one kind per such word, left to right, each
\* the text after the prefix in its word (read to the end of the word or to
\* the next ':'), also when the word has text before the prefix.
C10_KindIsTextAfterPrefix ==
    ReturnedFrom("extract_marker") =>
        LET ws == MarkerWords(arg.text)
        IN  /\ ret.r.none <=> ws = <<>>
            /\ ~ret.r.none =>
                 /\ Len(ret.r.val) = Len(ws)
                 /\ \A k \in 1..Len(ws) :
                       ret.r.val[k] \in {AfterPrefix(ws[k]), SplitOn(AfterPrefix(ws[k]), ":")[1]}

IsSentinel(drv) ==
    Has(drv, "peripheral") /\ IsStr(drv.peripheral) /\ drv.peripheral.s = NO_PERIPHERAL

NullAndNothingAppended ==
    /\ ~ret.r.raised
    /\ ret.r.val = <<"0">>
    /\ ret.r.acc = arg.handlers_init

SourceRenders == {k \in 1..Len(renders) : ~renders[k].header}

\* the positions of a given line in a rendered file
Positions(lines, line) == {h \in 1..Len(lines) : lines[h] = line}

TableHead ==
    <<"const", " ">> \o DRIVER_ALLOC_TYPE \o <<" ">> \o DRIVER_ALLOC_TABLE_NAME
        \o <<"[] = {", "\n">>

TableEnd == <<"};", "\n">>

\* the fields of a table row: name, type, direction, handler, buffer, index
RECURSIVE CutFields(_, _)
CutFields(row, cur) ==
    IF row = <<>> THEN <<cur>>
    ELSE IF Head(row) \in {"    { (uint8_t*)\"", " },", "\n"} THEN CutFields(Tail(row), cur)
    ELSE IF Head(row) \in {"\", ", ", ", ", (void*) "}
         THEN <<cur>> \o CutFields(Tail(row), <<>>)
    ELSE CutFields(Tail(row), Append(cur, Head(row)))

RowFields(row) == CutFields(row, <<>>)

\* the six fields are those of the row of driver drv with index idx
RowIsOf(fields, drv, idx) ==
    /\ Len(fields) = 6
    /\ fields[1] = drv.name
    /\ fields[2] = drv.type
    /\ fields[3] = drv.direction
    /\ fields[6] = ToStr(idx)

\* C1: the table of a rendered source file has exactly n rows for n drivers,
\* row i is built from the name, type and direction of the i-th driver, and
\* its index field is i, counted from zero.
C1_TableRowsFollowDrivers ==
    \A k \in SourceRenders : \A h \in Positions(renders[k].lines, TableHead) :
        LET lines == renders[k].lines
            n == Len(config.drivers)
        IN  /\ Len(lines) >= h + n + 1
            /\ lines[h + n + 1] = TableEnd
            /\ \A i \in 1..n :
                  /\ RowIsOf(RowFields(lines[h + i]), config.drivers[i], i - 1)
                  /\ StartsWith(lines[h + i], <<"    { (uint8_t*)\"">>)

C1_Witness ==
    \E k \in SourceRenders :
        /\ Positions(renders[k].lines, TableHead) # {}
        /\ Len(config.drivers) = 3
        /\ config.drivers[1] # config.drivers[2]
        /\ config.drivers[2] # config.drivers[3]

\* C2: two calls of gen_c_code with the same template, configuration object
\* and analysis record (same date) write the same text, for the source file
\* and for the header file.
C2_RenderIdempotent ==
    \A i, j \in 1..Len(renders) :
        renders[i].header = renders[j].header => renders[i].lines = renders[j].lines

UnknownKind(line) ==
    /\ ~extract_marker(line).none
    /\ \E m \in Range(extract_marker(line).val) : m \notin Kinds

\* C3: a template line that carries a marker of a kind outside the closed
\* set is in the output as it was, and the lines after it are still rendered.
C3_UnknownMarkerLineKept ==
    \A k \in 1..Len(renders) : \A t \in 1..Len(template) :
        UnknownKind(template[t]) => template[t] \in Range(renders[k].lines)

\* a BufferSpec is registered for a driver that is interrupt-enabled and whose
\* type has an InitSequenceSpec
Registered(drv) ==
    ItEnabled(drv) /\ \E s \in Range(config.init_sequence) : s.driver = drv.type

\* C4: in every table row the buffer field is "&<peripheral>_BUFFER" when a
\* BufferSpec was registered for the row's driver, and "0" otherwise.
C4_BufferFieldOfOwnDriver ==
    \A k \in SourceRenders : \A h \in Positions(renders[k].lines, TableHead) :
        \A i \in 1..Len(config.drivers) :
            RowFields(renders[k].lines[h + i])[5] =
                IF Registered(config.drivers[i])
                THEN <<"&">> \o Fmt(config.drivers[i].peripheral) \o BUFFER_NAME_SUFFIX
                ELSE <<"0">>

\* the driver types in the order of their first occurrence in the driver list
FirstSeenTypes(drivers) ==
    LET first(i) == \A j \in 1..(i - 1) : drivers[j].type # drivers[i].type
        idx == SelectIdx([i \in 1..Len(drivers) |-> i], first, 1)
    IN  [k \in 1..Len(idx) |-> drivers[idx[k]].type]

\* C5: after the analysis pass init_list holds each driver type of the list
\* exactly once and no other type, in the order of first occurrence.
C5_InitOrderFirstSeen ==
    pc \in {"ready", "done"} =>
        /\ analysis.init_list = FirstSeenTypes(config.drivers)
        /\ \A i, j \in 1..Len(analysis.init_list) :
              analysis.init_list[i] = analysis.init_list[j] => i = j
        /\ Range(analysis.init_list) = {config.drivers[i].type : i \in 1..Len(config.drivers)}

C5_Witness ==
    /\ pc = "ready"
    /\ Len(config.drivers) = 3
    /\ config.drivers[1].type = config.drivers[3].type
    /\ config.drivers[1].type # config.drivers[2].type
    /\ Len(analysis.init_list) = 2

\* the number of define markers of the template
NumDefine == Cardinality({t \in 1..Len(template) : template[t] = MarkerLine(DEFINE_MARKER)})

SizeMacro(sym, value) == <<"#define ">> \o sym \o <<" ">> \o ToStr(value) \o <<"\n">>

SubstAtoms(call, drv) ==
    Flatten([i \in 1..Len(call) |->
        CASE call[i] = "<drv_name>" -> drv.peripheral.s
          [] call[i] = "<handler>" ->
                <<"&huart">> \o RemovePrefix(drv.peripheral.s, USART_DRIVER_NAME)
          [] call[i] = "<buffer>" -> drv.peripheral.s \o BUFFER_NAME_SUFFIX
          [] OTHER -> <<call[i]>>])

\* C8: the it_enabled_sequence of a type's InitSequenceSpec is expanded only
\* for drivers with it_enabled true: no instruction of it is written for a
\* USART peripheral that no interrupt-enabled driver uses.
C8_ItSequenceOnlyForItDrivers ==
    \A k \in SourceRenders : \A s \in Range(config.init_sequence) :
        (Has(s, "it_enabled_sequence") /\ s.driver = USART_DRIVER_NAME) =>
            \A d \in Range(config.drivers) :
                (/\ d.type = USART_DRIVER_NAME
                 /\ ~\E e \in Range(config.drivers) :
                        e.type = d.type /\ e.peripheral = d.peripheral /\ ItEnabled(e))
                => \A c \in 1..Len(s.it_enabled_sequence) :
                      <<"    ">> \o SubstAtoms(s.it_enabled_sequence[c], d) \o <<"\n">>
                          \notin Range(renders[k].lines)

\* the sequences of the InitSequenceSpec of a type: none without a spec, the
\* primary one, then the interrupt variant when the spec has one
SequencesOf(type) ==
    IF \E s \in Range(config.init_sequence) : s.driver = type
    THEN LET s == CHOOSE s \in Range(config.init_sequence) : s.driver = type
         IN  <<s.sequence>>
             \o (IF Has(s, "it_enabled_sequence") THEN <<s.it_enabled_sequence>> ELSE <<>>)
    ELSE <<>>

IsUsart(drv) == drv.type = USART_DRIVER_NAME

ExpectedBlock(type, sequence) ==
    IF type = USART_DRIVER_NAME
    THEN LET ds == SelectSeq(config.drivers, IsUsart)
         IN  Flatten([i \in 1..Len(ds) |->
                 <<<<"    // ">> \o ds[i].peripheral.s \o <<" initialization">>>>
                 \o [c \in 1..Len(sequence) |-> <<"    ">> \o SubstAtoms(sequence[c], ds[i])]
                 \o <<<<>>>>])
    ELSE <<<<"    // ">> \o type \o <<" initialization">>>>
         \o [c \in 1..Len(sequence) |-> <<"    ">> \o sequence[c]]
         \o <<<<>>>>

WithNewlines(ls) == [i \in 1..Len(ls) |-> ls[i] \o <<"\n">>]

ExpectedInitFunc ==
    WithNewlines(
        << <<"void drivers_init()">>, <<"{">> >>
        \o Flatten([k \in 1..Len(analysis.init_list) |->
              Flatten([j \in 1..Len(SequencesOf(analysis.init_list[k])) |->
                  ExpectedBlock(analysis.init_list[k],
                                SequencesOf(analysis.init_list[k])[j])])])
        \o << <<"}">> >>)

\* C9: the init function follows init_list: nothing for a type without an
\* InitSequenceSpec; for USART, per sequence (primary, then interrupt
\* variant), one commented block per USART driver in input order with the
\* placeholders filled in; for any other type one verbatim commented block per
\* sequence.
C9_InitFuncFollowsInitOrder ==
    \A k \in SourceRenders :
        \A h \in Positions(renders[k].lines, <<"void drivers_init()", "\n">>) :
            SubSeq(renders[k].lines, h, h + Len(ExpectedInitFunc) - 1) = ExpectedInitFunc

C9_Witness ==
    /\ \E k \in SourceRenders :
          Positions(renders[k].lines, <<"void drivers_init()", "\n">>) # {}
    /\ config.drivers = <<DrvDebug, DrvSensor, DrvGps>>
    /\ config.init_sequence = <<UsartSpec, I2cSpec>>
    /\ analysis.init_list = <<USART_DRIVER_NAME, <<"I2C">>>>

(***************************************************************************)
(* The interrupt entries of the source file and of the Rust file.          *)
(***************************************************************************)
ItDrivers == SelectSeq(config.drivers, ItEnabled)

NumFunctions == Cardinality({t \in 1..Len(template) : template[t] = MarkerLine(FUNCTIONS_MARKER)})

\* xs repeated n times
RECURSIVE Repeat(_, _)
Repeat(xs, n) == IF n = 0 THEN <<>> ELSE xs \o Repeat(xs, n - 1)

InitFuncHead == <<"void drivers_init()", "\n">>

IsWrapperHead(line) == StartsWith(line, <<"void ">>) /\ line # InitFuncHead

IsRustDecl(line) == StartsWith(line, <<"    pub fn ">>)

IsRustFn(line) == StartsWith(line, <<"fn ">>)

IsRustCall(line) == StartsWith(line, <<"    unsafe { ">>)

WrapperHeads ==
    [i \in 1..Len(ItDrivers) |->
        <<"void ">> \o Fmt(ItDrivers[i].peripheral) \o <<"_it_handler", "()", "\n">>]

RustDecls ==
    [i \in 1..Len(ItDrivers) |->
        <<"    pub fn ">> \o Fmt(ItDrivers[i].peripheral) \o <<"_it_handler", "();", "\n">>]

RustFns ==
    [i \in 1..Len(ItDrivers) |->
        <<"fn ">> \o Fmt(ItDrivers[i].peripheral) \o <<"() {", "\n">>]

RustCalls ==
    [i \in 1..Len(ItDrivers) |->
        <<"    unsafe { ">> \o Fmt(ItDrivers[i].peripheral)
            \o <<"_it_handler", "(); }", "\n">>]

\* C11: the C interrupt wrappers of a source file, the external declarations
\* and the interrupt functions of the Rust file each have one entry per
\* driver with it_enabled true and none for another driver, in input order;
\* the Rust function of a driver calls "<peripheral>_it_handler", the name
\* of the driver's C wrapper and of its external declaration.
C11_OneItEntryPerItDriver ==
    /\ \A k \in SourceRenders :
          SelectSeq(renders[k].lines, IsWrapperHead) = Repeat(WrapperHeads, NumFunctions)
    /\ pc = "done" =>
          /\ SelectSeq(rust, IsRustDecl) = RustDecls
          /\ SelectSeq(rust, IsRustFn) = RustFns
          /\ SelectSeq(rust, IsRustCall) = RustCalls
          /\ \A h \in 1..Len(rust) : IsRustFn(rust[h]) => IsRustCall(rust[h + 1])

C11_Witness ==
    /\ pc = "done"
    /\ NumFunctions = 1
    /\ SourceRenders # {}
    /\ config.drivers = <<DrvDebug, DrvSensor, DrvGps>>
    /\ Len(SelectSeq(rust, IsRustFn)) = 2

(***************************************************************************)
(* The handler of a GPIO driver.                                           *)
(***************************************************************************)
\* the characters of a text, whatever its division into atoms
RECURSIVE Text(_)
Text(atoms) == IF atoms = <<>> THEN "" ELSE Head(atoms) \o Text(Tail(atoms))

Texts(lines) == [i \in 1..Len(lines) |-> Text(lines[i])]

IsGpioMap(drv) ==
    /\ Has(drv, "type") /\ drv.type = GPIO_DRIVER_NAME
    /\ Has(drv, "peripheral") /\ ~IsStr(drv.peripheral)

\* "<port><pin>" of a GPIO driver
PortPin(drv) == Text(drv.peripheral.port) \o Text(ToStr(drv.peripheral.pin))

GpioStruct(drv) ==
    << "const GPIO_ALLOC GPIO_P" \o PortPin(drv) \o " = {",
       "    .gpio = GPIO" \o Text(drv.peripheral.port) \o ",",
       "    .pin = GPIO_PIN_" \o Text(ToStr(drv.peripheral.pin)) \o ",",
       "};" >>

\* C12: for a GPIO driver with port p and pin n get_peripheral_handler
\* returns "&GPIO_P<p><n>" and appends to the accumulator, after its earlier
\* content, one const GPIO_ALLOC initializer named GPIO_P<p><n> with the
\* fields ".gpio = GPIO<p>" and ".pin = GPIO_PIN_<n>"; for a USART driver
\* the accumulator is as it was.
C12_GpioHandlerStruct ==
    ReturnedFrom("get_peripheral_handler") =>
        /\ IsGpioMap(arg.peripheral) =>
              /\ ~ret.r.raised
              /\ Text(ret.r.val) = "&GPIO_P" \o PortPin(arg.peripheral)
              /\ Len(ret.r.acc) = Len(arg.handlers_init) + 4
              /\ SubSeq(ret.r.acc, 1, Len(arg.handlers_init)) = arg.handlers_init
              /\ Texts(SubSeq(ret.r.acc, Len(arg.handlers_init) + 1, Len(ret.r.acc)))
                    = GpioStruct(arg.peripheral)
        /\ arg.peripheral.type = USART_DRIVER_NAME =>
              /\ ~ret.r.raised
              /\ ret.r.acc = arg.handlers_init

C12_Witness ==
    /\ ReturnedFrom("get_peripheral_handler")
    /\ arg.peripheral = DrvLed
    /\ arg.handlers_init # <<>>
    /\ Text(ret.r.val) = "&GPIO_PA5"
    /\ Texts(ret.r.acc)[3] = "    .gpio = GPIOA,"
    /\ Texts(ret.r.acc)[4] = "    .pin = GPIO_PIN_5,"

(***************************************************************************)
(* The buffers of the analysis record.                                     *)
(***************************************************************************)
HasInitSpec(type) == \E s \in Range(config.init_sequence) : s.driver = type

WantsBuffer(drv) == ItEnabled(drv) /\ HasInitSpec(drv.type)

BufferDrivers == SelectSeq(config.drivers, WantsBuffer)

\* C13: after the analysis pass the buffers are those of the drivers that
\* are interrupt-enabled and whose type has an InitSequenceSpec, in input
\* order, each named "<peripheral>_BUFFER" with the size symbol
\* "<type>_BUFFER_SIZE" of its driver; no other driver has a BufferSpec.
C13_BuffersOnlyForItDriversWithSpec ==
    pc \in {"ready", "done"} =>
        /\ Len(analysis.buffers) = Len(BufferDrivers)
        /\ \A i \in 1..Len(BufferDrivers) :
              /\ Text(analysis.buffers[i].name)
                    = Text(Fmt(BufferDrivers[i].peripheral)) \o "_BUFFER"
              /\ Text(analysis.buffers[i].size)
                    = Text(BufferDrivers[i].type) \o "_BUFFER_SIZE"

C13_Witness ==
    /\ pc = "ready"
    /\ config.drivers = <<DrvSensor, DrvDebug, DrvGps>>
    /\ config.init_sequence = <<GpioSpec, UsartSpecPlain>>
    /\ Len(analysis.buffers) = 1
    /\ Text(analysis.buffers[1].name) = "USART10_BUFFER"

(***************************************************************************)
(* Missing configuration keys.                                             *)
(***************************************************************************)
Lacks(d, keys) == \E key \in keys : ~Has(d, key)

HasLine(kind) == \E t \in 1..Len(template) : template[t] = MarkerLine(kind)

\* the specs whose type some driver has, and those with an interrupt-enabled one
SpecsInUse ==
    {s \in Range(config.init_sequence) :
        \E d \in Range(config.drivers) : Has(d, "type") /\ d.type = s.driver}

SpecsInItUse ==
    {s \in Range(config.init_sequence) :
        \E d \in Range(config.drivers) : Has(d, "type") /\ d.type = s.driver /\ ItEnabled(d)}

\* a key that the analysis pass reads is missing
MissingForAnalysis ==
    \/ \E d \in Range(config.drivers) : Lacks(d, {"type"})
    \/ \E s \in SpecsInUse : Lacks(s, {"includes"})
    \/ \E s \in SpecsInItUse : Lacks(s, {"buffer_size"})
    \/ \E d \in Range(config.drivers) :
          /\ ItEnabled(d) /\ Lacks(d, {"peripheral"})
          /\ \E s \in SpecsInItUse : Has(d, "type") /\ d.type = s.driver

\* a key that a source render reads for the constants marker is missing
MissingForTable ==
    /\ HasLine(CONST_MARKER)
    /\ \E d \in Range(config.drivers) : Lacks(d, {"name", "type", "direction", "peripheral"})

\* a key that a source render reads for the functions marker is missing
MissingForFunctions ==
    /\ HasLine(FUNCTIONS_MARKER)
    /\ \/ \E s \in SpecsInUse : Lacks(s, {"sequence"})
       \/ \E d \in Range(config.drivers) : ItEnabled(d) /\ Lacks(d, {"peripheral"})

\* a key that gen_rust_code reads is missing
MissingForRust ==
    \E d \in Range(config.drivers) : ItEnabled(d) /\ Lacks(d, {"peripheral"})

NoStageCompletedWithMissingKey ==
    /\ (pc # "start" /\ MissingForAnalysis) =>
          /\ pc = "fatal"
          /\ analysis = EmptyAnalysis /\ renders = <<>> /\ rust = <<>>
    /\ SourceRenders # {} => ~MissingForTable /\ ~MissingForFunctions
    /\ pc = "done" => ~MissingForRust

\* C14: when a key that a stage reads is missing the stage ends in a fatal
\* error without output (no default takes the key's place), and after a
\* fatal error no stage runs.
C14_MissingKeyIsFatal ==
    /\ []NoStageCompletedWithMissingKey
    /\ [][pc # "fatal"]_vars

C14_Witness ==
    /\ pc = "fatal"
    /\ config.drivers = <<DrvGps, DrvNoName>>
    /\ Len(renders) = 1
    /\ renders[1].header
    /\ rust = <<>>

(***************************************************************************)
(* The macros of the define marker.                                        *)
(***************************************************************************)
TableSizeMacro ==
    <<"#define ", "DRIVERS_ALLOC_SIZE", " ">> \o ToStr(Len(config.drivers)) \o <<"\n">>

ActivationMacro(act) == <<"#define ">> \o act \o <<"\n">>

IsSizeMacro(line) ==
    \E i \in 1..Len(analysis.buffers_size) :
        StartsWith(line, <<"#define ">> \o analysis.buffers_size[i][1] \o <<" ">>)

\* C15: for the define marker a header render has the table-size macro and
\* the activation macros and no buffer-size macro; a source render has the
\* table-size macro, the activation macros and the buffer-size macros.
C15_HeaderDefineWithoutSizeMacros ==
    HasLine(DEFINE_MARKER) =>
        \A k \in 1..Len(renders) :
            /\ TableSizeMacro \in Range(renders[k].lines)
            /\ \A a \in Range(analysis.activations) :
                  ActivationMacro(a) \in Range(renders[k].lines)
            /\ renders[k].header =>
                  \A h \in 1..Len(renders[k].lines) : ~IsSizeMacro(renders[k].lines[h])
            /\ ~renders[k].header =>
                  \A i \in 1..Len(analysis.buffers_size) :
                      SizeMacro(analysis.buffers_size[i][1], analysis.buffers_size[i][2])
                          \in Range(renders[k].lines)

(***************************************************************************)
(* The lines of the template without marker.                               *)
(***************************************************************************)
PlainLine(line) == extract_marker(line).none

Terminated(line) == IF EndsWith(line, <<"\n">>) THEN line ELSE line \o <<"\n">>

\* the template as a pattern: for each line without marker the line that
\* is expected in the output, for each marker line the empty text
Pattern(tpl, asTerminated) ==
    [t \in 1..Len(tpl) |->
        IF ~PlainLine(tpl[t]) THEN <<>>
        ELSE IF asTerminated THEN Terminated(tpl[t]) ELSE tpl[t]]

\* the first line without marker at or after position t, Len + 1 if none
RECURSIVE NextPlain(_, _)
NextPlain(pat, t) ==
    IF t > Len(pat) \/ pat[t] # <<>> THEN t ELSE NextPlain(pat, t + 1)

\* out from position o on is made of the pattern from position t on: each
\* line without marker once, and any lines in place of each run of marker
\* lines
RECURSIVE Fits(_, _, _, _)
Fits(pat, t, out, o) ==
    IF t > Len(pat) THEN o = Len(out) + 1
    ELSE IF pat[t] # <<>>
    THEN o <= Len(out) /\ out[o] = pat[t] /\ Fits(pat, t + 1, out, o + 1)
    ELSE IF NextPlain(pat, t) > Len(pat) THEN TRUE
    ELSE \E o2 \in {h \in o..Len(out) : out[h] = pat[NextPlain(pat, t)]} :
            Fits(pat, NextPlain(pat, t), out, o2)

EveryRenderFits(pat) == \A k \in 1..Len(renders) : Fits(pat, 1, renders[k].lines, 1)

\* C16 as stated: every template line without marker is in the output
\* unchanged, in template order and in its place between the content
\* generated for the marker lines around it.
C16_PlainLinesUnchanged == EveryRenderFits(Pattern(template, FALSE))

\* C16 amended: every template line without marker is in the output, in
\* template order and in its place between the generated content, unchanged
\* but for the line terminator that a last line without one receives.
C16_PlainLinesKeptTerminated == EveryRenderFits(Pattern(template, TRUE))

C16_Witness ==
    /\ Len(renders) = 2
    /\ template = FullTemplate
    /\ Len(config.drivers) = 3
    /\ \E k \in SourceRenders : Len(renders[k].lines) > Len(template) + 5

\* C17: a call of gen_c_code (source or header) or of gen_rust_code leaves
\* the configuration (drivers, includes_c, includes_h, init_sequence) and
\* every field of the analysis record as they were before the call.
C17_RenderLeavesConfigUnchanged ==
    [][pc = "ready" => (config' = config /\ analysis' = analysis)]_vars

(***************************************************************************)
(* The size macro and the rows of the table.                               *)
(***************************************************************************)
IsTableSizeMacro(line) == StartsWith(line, <<"#define ", "DRIVERS_ALLOC_SIZE", " ">>)

\* the number written by a table-size macro, as text
MacroValue(line) == Text(SubSeq(line, 4, Len(line) - 1))

\* the end of the table that starts at line h
TableEndOf(lines, h) ==
    CHOOSE e \in (h + 1)..Len(lines) :
        lines[e] = TableEnd /\ \A j \in (h + 1)..(e - 1) : lines[j] # TableEnd

\* the number of rows of the table that starts at line h
TableRows(lines, h) == TableEndOf(lines, h) - h - 1

\* C18: the value of every DRIVERS_ALLOC_SIZE macro of a source or header
\* render is the length of the driver list, and so is the number of rows of
\* every table of a source render.
C18_SizeMacroIsRowCount ==
    /\ \A k \in 1..Len(renders) : \A h \in 1..Len(renders[k].lines) :
          IsTableSizeMacro(renders[k].lines[h]) =>
              MacroValue(renders[k].lines[h]) = Text(ToStr(Len(config.drivers)))
    /\ \A k \in 1..Len(renders) :
          Cardinality({h \in 1..Len(renders[k].lines) : IsTableSizeMacro(renders[k].lines[h])})
              = NumDefine
    /\ \A k \in SourceRenders : \A h \in Positions(renders[k].lines, TableHead) :
          /\ \E e \in (h + 1)..Len(renders[k].lines) : renders[k].lines[e] = TableEnd
          /\ TableRows(renders[k].lines, h) = Len(config.drivers)
          /\ \A j \in (h + 1)..(TableEndOf(renders[k].lines, h) - 1) :
                StartsWith(renders[k].lines[j], <<"    { (uint8_t*)\"">>)

C18_Witness ==
    /\ Len(renders) = 2
    /\ ~renders[1].header /\ renders[2].header
    /\ Len(config.drivers) = 3
    /\ Positions(renders[1].lines, TableHead) # {}
    /\ \E h \in 1..Len(renders[2].lines) :
          /\ IsTableSizeMacro(renders[2].lines[h])
          /\ MacroValue(renders[2].lines[h]) = "3"

(***************************************************************************)
(* Lines with several markers of the kinds filename, date and author.      *)
(***************************************************************************)
SubstKinds == {FILENAME_MARKER, DATE_MARKER, AUTHOR_MARKER}

\* the kinds of the markers of a line, left to right
KindsOf(line) == [j \in 1..Len(MarkerWords(line)) |-> AfterPrefix(MarkerWords(line)[j])]

\* the line carries markers, all of the kinds filename, date or author
OnlySubstKinds(line) ==
    /\ MarkerWords(line) # <<>>
    /\ \A j \in 1..Len(KindsOf(line)) : KindsOf(line)[j] \in SubstKinds

\* the number of output lines for a template line of these two sorts
LineCount(line) == IF MarkerWords(line) = <<>> THEN 1 ELSE Len(MarkerWords(line))

\* the number of output lines for the template lines before line t
RECURSIVE Offset(_)
Offset(t) == IF t <= 1 THEN 0 ELSE Offset(t - 1) + LineCount(template[t - 1])

\* the text that takes the place of a marker of the kind
SubstValue(kind, header) ==
    IF kind = FILENAME_MARKER
    THEN <<"drivers_alloc", ".">> \o (IF header THEN <<"h">> ELSE <<"c">>)
    ELSE IF kind = DATE_MARKER THEN today
    ELSE <<"Auto-generated by ", "gen_drivers_alloc">>

\* out is the template line with the tokens of the kind replaced, no other
SubstitutedFor(out, line, kind, header) ==
    /\ ~Contains(out, MARKER \o kind)
    /\ Contains(out, SubstValue(kind, header))
    /\ Replace(out, SubstValue(kind, header), MARKER \o kind) = Terminated(line)
    /\ \A j \in 1..Len(KindsOf(line)) :
          KindsOf(line)[j] # kind => Contains(out, MARKER \o KindsOf(line)[j])

\* C19: a template line with k >= 1 markers, all of the kinds filename, date
\* or author, gives k output lines in the order of its markers, the j-th
\* being the line with the tokens of the j-th marker's kind replaced and
\* the tokens of the other kinds still there.  Stated for the templates
\* made of such lines and of lines without marker, where the place of each
\* output line is known.
C19_OneLinePerMarker ==
    (\A t \in 1..Len(template) :
        MarkerWords(template[t]) = <<>> \/ OnlySubstKinds(template[t]))
    => \A k \in 1..Len(renders) :
          /\ Len(renders[k].lines) = Offset(Len(template) + 1)
          /\ \A t \in 1..Len(template) :
                OnlySubstKinds(template[t]) =>
                    \A j \in 1..Len(KindsOf(template[t])) :
                        SubstitutedFor(renders[k].lines[Offset(t) + j], template[t],
                                       KindsOf(template[t])[j], renders[k].header)

====
